---- MODULE Spec2Model ----
(***************************************************************************)
(* A model of backend/main.py: the five HTTP handlers of the media         *)
(* download service, the worker-thread calls into the extraction library,  *)
(* the temporary storage under DOWNLOAD_DIR and the post-response          *)
(* background tasks.                                                       *)
(***************************************************************************)
EXTENDS Integers, Sequences, FiniteSets, TLC

\* ------------------------------------------------------------------ bounds
MaxReq == 2
MaxUrls == 2
MaxFormats == 2

Req == 1 .. MaxReq
RunIds == 1 .. MaxReq
Absent == 0 - 1
NoRun == Absent

\* --------------------------------------------------------- program constants
\* (the labels' en dashes are written as hyphens)
DOWNLOAD_DIR == "temp_downloads"
FFMPEG_PATH == "C:\\ffmpeg\\bin\\ffmpeg.exe"

StdHeights == {2160, 1440, 1080, 720, 480, 360, 240, 144}

QUALITY_MAP == [h \in StdHeights |->
    CASE h = 2160 -> "2160p (4K): 256-512 kbps"
      [] h = 1440 -> "1440p (2K): 256-512 kbps"
      [] h = 1080 -> "1080p: 192-384 kbps"
      [] h = 720  -> "720p: 192-384 kbps"
      [] h = 480  -> "480p: 128-192 kbps"
      [] h = 360  -> "360p: 64-128 kbps"
      [] h = 240  -> "240p: 48-64 kbps"
      [] OTHER    -> "144p: 24-48 kbps"]

\* ------------------------------------------------------------------ inputs
\* Quality is an unvalidated query/body string.
Qualities == {"192", "720"}
\* BatchRequest.type is an unvalidated string too.
BatchTypes == {"audio", "video"}
\* What the extraction library's exceptions say.
LibErrors == {"ERROR: Unsupported URL", "ERROR: ffmpeg not found"}

\* ------------------------------------------------------------------- paths
\* f"{DOWNLOAD_DIR}/{run_id}", a file in it, and f"{batch_dir}.zip".
DirPath(id) == <<"dir", id>>
FilePath(id) == <<"file", id>>
ZipPath(id) == <<"zip", id>>
NoPath == <<"none", NoRun>>
dirname(p) == IF p[1] = "file" THEN DirPath(p[2]) ELSE <<"root", NoRun>>

VARIABLES
    pc,         \* where each request is: idle, thread, resume, sending, background, done
    route,      \* the handler serving the request
    request,    \* the request's parameters: type, quality, number of URLs
    url,        \* the URL handed to the library
    run_id,     \* the request's uuid4 (NoRun before it is drawn)
    ydl_opts,   \* the option dictionary handed to yt_dlp.YoutubeDL
    todo,       \* URLs the library has not processed yet
    exc,        \* the exception raised while serving the request
    info,       \* what extract_info returned
    response,   \* the HTTP response of the request
    tasks,      \* the response's BackgroundTasks, in order
    fsDir,      \* run directories under DOWNLOAD_DIR: Absent, or the number of files
    fsZip,      \* archives under DOWNLOAD_DIR
    log         \* paths whose cleanup failure was printed

vars == <<pc, route, request, url, run_id, ydl_opts, todo, exc, info, response, tasks,
          fsDir, fsZip, log>>

\* ------------------------------------------------------------- exceptions
NoExc == [type |-> "none", status_code |-> 0, detail |-> "", at |-> 0]
DownloadError(msg, line) ==
    [type |-> "DownloadError", status_code |-> 0, detail |-> msg, at |-> line]
OSError(msg, line) ==
    [type |-> "OSError", status_code |-> 0, detail |-> msg, at |-> line]
HTTPException(code, msg, line) ==
    [type |-> "HTTPException", status_code |-> code, detail |-> msg, at |-> line]

\* str(e): the message of an ordinary exception; Starlette's HTTPException
\* prints as "<status_code>: <detail>".
str(e) ==
    IF e.type = "HTTPException"
    THEN ToString(e.status_code) \o ": " \o e.detail
    ELSE e.detail

\* -------------------------------------------------------------- responses
NoJson == [status |-> "", message |-> "", video_options |-> <<>>,
           audio_options |-> <<>>, channel_name |-> "", videos |-> <<>>]
NoResponse ==
    [status |-> 0, media_type |-> "", path |-> NoPath, detail |-> "", json |-> NoJson]
FileResponse(p, mt) ==
    [status |-> 200, media_type |-> mt, path |-> p, detail |-> "", json |-> NoJson]
ErrorResponse(code, msg) ==
    [status |-> code, media_type |-> "application/json", path |-> NoPath,
     detail |-> msg, json |-> NoJson]
JsonResponse(j) ==
    [status |-> 200, media_type |-> "application/json", path |-> NoPath,
     detail |-> "", json |-> j]
\* An exception that leaves the handler is answered by the framework.
ServerErrorResponse ==
    [status |-> 500, media_type |-> "text/plain", path |-> NoPath,
     detail |-> "Internal Server Error", json |-> NoJson]

\* ------------------------------------------------------------ ydl options
NoOpts == [outtmpl |-> NoPath, format |-> "", preferredquality |-> "",
           merge_output_format |-> "", extract_flat |-> FALSE, no_warnings |-> FALSE,
           ffmpeg_location |-> ""]

\* download_media: the options of a single download.
single_opts(id, is_audio, quality) ==
    IF is_audio
    THEN [NoOpts EXCEPT !.outtmpl = DirPath(id), !.no_warnings = TRUE,
                        !.ffmpeg_location = FFMPEG_PATH,
                        !.format = "bestaudio[abr<=" \o quality \o "]/bestaudio/best",
                        !.preferredquality = quality]
    ELSE [NoOpts EXCEPT !.outtmpl = DirPath(id), !.no_warnings = TRUE,
                        !.ffmpeg_location = FFMPEG_PATH,
                        !.format = "bestvideo[height<=" \o quality \o "]+bestaudio/best",
                        !.merge_output_format = "mp4"]

\* Batch options that ignore the requested quality.
batch_opts_fixed(id, type, quality) ==
    IF type = "audio"
    THEN [NoOpts EXCEPT !.outtmpl = DirPath(id),
                        !.ffmpeg_location = FFMPEG_PATH,
                        !.format = "bestaudio[abr<=192]/bestaudio/best",
                        !.preferredquality = "192"]
    ELSE [NoOpts EXCEPT !.outtmpl = DirPath(id),
                        !.ffmpeg_location = FFMPEG_PATH,
                        !.format = "bestvideo[height<=720]+bestaudio/best",
                        !.merge_output_format = "mp4"]

\* download_batch: the options of a batch download.
batch_opts(id, type, quality) ==
    IF type = "audio"
    THEN [NoOpts EXCEPT !.outtmpl = DirPath(id),
                        !.ffmpeg_location = FFMPEG_PATH,
                        !.format = "bestaudio[abr<=" \o quality \o "]/bestaudio/best",
                        !.preferredquality = quality]
    ELSE [NoOpts EXCEPT !.outtmpl = DirPath(id),
                        !.ffmpeg_location = FFMPEG_PATH,
                        !.format = "bestvideo[height<=" \o quality \o "]+bestaudio/best",
                        !.merge_output_format = "mp4"]

\* get_video_info / get_channel_info: metadata-only options.
info_opts(flat) ==
    [NoOpts EXCEPT !.extract_flat = flat, !.ffmpeg_location = FFMPEG_PATH]

\* ------------------------------------------------------------------- uuid
\* A generator that hands every request the same identifier.
uuid4_fixed == CHOOSE i \in RunIds : TRUE

\* uuid.uuid4(): an identifier no other request holds.
uuid4 == CHOOSE i \in RunIds : \A r \in Req : run_id[r] # i

NoRequest == [type |-> "", quality |-> "", urls |-> 0]

NoInfo == [title |-> "", formats |-> <<>>, entries |-> <<>>]

Init ==
    /\ pc = [r \in Req |-> "idle"]
    /\ route = [r \in Req |-> "none"]
    /\ request = [r \in Req |-> NoRequest]
    /\ url = [r \in Req |-> <<>>]
    /\ run_id = [r \in Req |-> NoRun]
    /\ ydl_opts = [r \in Req |-> NoOpts]
    /\ todo = [r \in Req |-> 0]
    /\ exc = [r \in Req |-> NoExc]
    /\ info = [r \in Req |-> NoInfo]
    /\ response = [r \in Req |-> NoResponse]
    /\ tasks = [r \in Req |-> <<>>]
    /\ fsDir = [i \in RunIds |-> Absent]
    /\ fsZip = {}
    /\ log = {}

IsSingle(r) == route[r] \in {"audio", "video"}
IsDownload(r) == route[r] \in {"audio", "video", "batch"}

\* ------------------------------------------------- single download handlers
\* download_audio / download_video up to the await in download_media:
\* draw the run id and build the options.
StartSingle(r, rt, u, quality) ==
    /\ pc[r] = "idle"
    /\ LET id == uuid4 IN
        /\ run_id' = [run_id EXCEPT ![r] = id]
        /\ ydl_opts' = [ydl_opts EXCEPT ![r] = single_opts(id, rt = "audio", quality)]
    /\ route' = [route EXCEPT ![r] = rt]
    /\ request' = [request EXCEPT ![r] = [type |-> rt, quality |-> quality, urls |-> 1]]
    /\ url' = [url EXCEPT ![r] = u]
    /\ todo' = [todo EXCEPT ![r] = 1]
    /\ pc' = [pc EXCEPT ![r] = "thread"]
    /\ UNCHANGED <<exc, info, response, tasks, fsDir, fsZip, log>>

\* ------------------------------------------------------- the worker thread
\* The library creates the output directory of outtmpl before it writes.
LibMkdir(r) ==
    /\ pc[r] = "thread" /\ IsDownload(r) /\ todo[r] > 0
    /\ fsDir[run_id[r]] = Absent
    /\ fsDir' = [fsDir EXCEPT ![run_id[r]] = 0]
    /\ UNCHANGED <<pc, route, request, url, run_id, ydl_opts, todo, exc, info, response,
                   tasks, fsZip, log>>

\* The library downloads one URL and writes its file.
LibWrite(r) ==
    /\ pc[r] = "thread" /\ IsDownload(r) /\ todo[r] > 0
    /\ fsDir[run_id[r]] # Absent
    /\ fsDir' = [fsDir EXCEPT ![run_id[r]] = @ + 1]
    /\ todo' = [todo EXCEPT ![r] = @ - 1]
    /\ UNCHANGED <<pc, route, request, url, run_id, ydl_opts, exc, info, response, tasks,
                   fsZip, log>>

\* The library finishes one URL without writing anything (nothing to download).
LibSkip(r) ==
    /\ pc[r] = "thread" /\ IsDownload(r) /\ todo[r] > 0
    /\ todo' = [todo EXCEPT ![r] = @ - 1]
    /\ UNCHANGED <<pc, route, request, url, run_id, ydl_opts, exc, info, response, tasks,
                   fsDir, fsZip, log>>

\* A worker that archives the directory even when the download raised
\* (make_archive in a finally clause).
thread_raise_archives(r, msg, partial) ==
    [exc |-> DownloadError(msg, IF route[r] = "batch" THEN 194 ELSE 120),
     dir |-> IF partial THEN [fsDir EXCEPT ![run_id[r]] = @ + 1] ELSE fsDir,
     zip |-> IF route[r] = "batch" THEN fsZip \cup {run_id[r]} ELSE fsZip]

\* What the worker leaves behind when the library raises on a URL: the
\* exception leaves run_ytdlp / run_batch, so nothing after ydl.download runs.
\* partial: the library had begun writing the file of that URL.
thread_raise(r, msg, partial) ==
    [exc |-> DownloadError(msg, IF route[r] = "batch" THEN 194 ELSE 120),
     dir |-> IF partial THEN [fsDir EXCEPT ![run_id[r]] = @ + 1] ELSE fsDir,
     zip |-> fsZip]

LibRaise(r, msg, partial) ==
    /\ pc[r] = "thread" /\ IsDownload(r) /\ todo[r] > 0
    /\ partial => fsDir[run_id[r]] # Absent
    /\ LET out == thread_raise(r, msg, partial) IN
        /\ exc' = [exc EXCEPT ![r] = out.exc]
        /\ fsDir' = out.dir
        /\ fsZip' = out.zip
    /\ pc' = [pc EXCEPT ![r] = "resume"]
    /\ UNCHANGED <<route, request, url, run_id, ydl_opts, todo, info, response, tasks, log>>

\* run_ytdlp returns: ydl.download([url]) came back without raising.
run_ytdlp(r) ==
    /\ pc[r] = "thread" /\ IsSingle(r) /\ todo[r] = 0
    /\ pc' = [pc EXCEPT ![r] = "resume"]
    /\ UNCHANGED <<route, request, url, run_id, ydl_opts, todo, exc, info, response, tasks,
                   fsDir, fsZip, log>>

\* run_batch after ydl.download(request.urls) came back:
\* shutil.make_archive(batch_dir, 'zip', batch_dir).  oserror: the archiver
\* fails; leaves: it had already created the archive file.
run_batch(r, oserror, leaves) ==
    /\ pc[r] = "thread" /\ route[r] = "batch" /\ todo[r] = 0
    /\ IF oserror \/ fsDir[run_id[r]] = Absent
       THEN /\ exc' = [exc EXCEPT ![r] = OSError("make_archive failed", 195)]
            /\ fsZip' = IF leaves THEN fsZip \cup {run_id[r]} ELSE fsZip
       ELSE /\ fsZip' = fsZip \cup {run_id[r]}
            /\ UNCHANGED exc
    /\ pc' = [pc EXCEPT ![r] = "resume"]
    /\ UNCHANGED <<route, request, url, run_id, ydl_opts, todo, info, response, tasks,
                   fsDir, log>>

\* ------------------------------------------ single download, after the await
\* download_media lines 124-127: list the run directory.
listdir_exc(id) ==
    IF fsDir[id] = Absent
    THEN OSError("[Errno 2] No such file or directory", 125)
    ELSE IF fsDir[id] = 0
    THEN HTTPException(500, "Download failed.", 126)
    ELSE NoExc

media_type_of(rt) == IF rt = "audio" THEN "audio/mpeg" ELSE "video/mp4"

\* A handler that lets an HTTPException through with its own status code.
single_handler_passthrough(e, id, rt) ==
    IF e # NoExc
    THEN [exc |-> e, tasks |-> <<>>,
          response |-> IF e.type = "HTTPException"
                       THEN ErrorResponse(e.status_code, e.detail)
                       ELSE ErrorResponse(400, str(e))]
    ELSE [exc |-> NoExc, tasks |-> <<dirname(FilePath(id))>>,
          response |-> FileResponse(FilePath(id), media_type_of(rt))]

\* download_audio / download_video: the try body after download_media and
\* the except clause.  e is the exception download_media raised, if any.
single_handler(e, id, rt) ==
    IF e # NoExc
    THEN [exc |-> e, tasks |-> <<>>, response |-> ErrorResponse(400, str(e))]
    ELSE [exc |-> NoExc, tasks |-> <<dirname(FilePath(id))>>,
          response |-> FileResponse(FilePath(id), media_type_of(rt))]

ResumeSingle(r) ==
    /\ pc[r] = "resume" /\ IsSingle(r)
    /\ LET e == IF exc[r] # NoExc THEN exc[r] ELSE listdir_exc(run_id[r])
           out == single_handler(e, run_id[r], route[r])
       IN /\ exc' = [exc EXCEPT ![r] = out.exc]
          /\ tasks' = [tasks EXCEPT ![r] = out.tasks]
          /\ response' = [response EXCEPT ![r] = out.response]
    /\ pc' = [pc EXCEPT ![r] = "sending"]
    /\ UNCHANGED <<route, request, url, run_id, ydl_opts, todo, info, fsDir, fsZip, log>>

\* ------------------------------------------------------------ transmission
\* The response has been sent completely; its background tasks run next.
Transmit(r) ==
    /\ pc[r] = "sending"
    /\ pc' = [pc EXCEPT ![r] = IF tasks[r] = <<>> THEN "done" ELSE "background"]
    /\ UNCHANGED <<route, request, url, run_id, ydl_opts, todo, exc, info, response, tasks,
                   fsDir, fsZip, log>>

\* ----------------------------------------------------------------- cleanup
isfile(p) == p[1] = "zip" /\ p[2] \in fsZip
isdir(p) == p[1] = "dir" /\ p[2] \in RunIds /\ fsDir[p[2]] # Absent

\* A cleanup that removes files only and leaves directories alone.
cleanup_file_files_only(p, oserror, left) ==
    IF isfile(p)
    THEN IF oserror
         THEN [dir |-> fsDir, zip |-> fsZip, log |-> log \cup {p}, raised |-> FALSE]
         ELSE [dir |-> fsDir, zip |-> fsZip \ {p[2]}, log |-> log, raised |-> FALSE]
    ELSE [dir |-> fsDir, zip |-> fsZip, log |-> log, raised |-> FALSE]

\* A cleanup without the try/except: the removal's exception leaves the task.
cleanup_file_raises(p, oserror, left) ==
    IF isfile(p)
    THEN IF oserror
         THEN [dir |-> fsDir, zip |-> fsZip, log |-> log, raised |-> TRUE]
         ELSE [dir |-> fsDir, zip |-> fsZip \ {p[2]}, log |-> log, raised |-> FALSE]
    ELSE IF isdir(p)
    THEN IF oserror
         THEN [dir |-> [fsDir EXCEPT ![p[2]] = left], zip |-> fsZip,
               log |-> log, raised |-> TRUE]
         ELSE [dir |-> [fsDir EXCEPT ![p[2]] = Absent], zip |-> fsZip,
               log |-> log, raised |-> FALSE]
    ELSE [dir |-> fsDir, zip |-> fsZip, log |-> log, raised |-> FALSE]

\* cleanup_file(filepath).  oserror: os.remove / shutil.rmtree raises, having
\* removed all but `left` of a directory's files.
cleanup_file(p, oserror, left) ==
    IF isfile(p)
    THEN IF oserror
         THEN [dir |-> fsDir, zip |-> fsZip, log |-> log \cup {p}, raised |-> FALSE]
         ELSE [dir |-> fsDir, zip |-> fsZip \ {p[2]}, log |-> log, raised |-> FALSE]
    ELSE IF isdir(p)
    THEN IF oserror
         THEN [dir |-> [fsDir EXCEPT ![p[2]] = left], zip |-> fsZip,
               log |-> log \cup {p}, raised |-> FALSE]
         ELSE [dir |-> [fsDir EXCEPT ![p[2]] = Absent], zip |-> fsZip,
               log |-> log, raised |-> FALSE]
    ELSE [dir |-> fsDir, zip |-> fsZip, log |-> log, raised |-> FALSE]

\* BackgroundTasks runs the tasks in the order they were added; a task that
\* raises ends the run.
RunTask(r, oserror, left) ==
    /\ pc[r] = "background" /\ tasks[r] # <<>>
    /\ LET p == Head(tasks[r])
           out == cleanup_file(p, oserror, left)
           rest == IF out.raised THEN <<>> ELSE Tail(tasks[r])
       IN /\ oserror => isfile(p) \/ isdir(p)
          /\ isdir(p) /\ oserror => left <= fsDir[p[2]]
          /\ ~(isdir(p) /\ oserror) => left = 0
          /\ fsDir' = out.dir
          /\ fsZip' = out.zip
          /\ log' = out.log
          /\ tasks' = [tasks EXCEPT ![r] = rest]
          /\ pc' = [pc EXCEPT ![r] = IF rest = <<>> THEN "done" ELSE "background"]
    /\ UNCHANGED <<route, request, url, run_id, ydl_opts, todo, exc, info, response>>

\* ------------------------------------------------------------ batch handler
\* download_batch up to the await: draw the run id, os.makedirs(batch_dir,
\* exist_ok=True) and build the options.  oserror: makedirs raises; that is
\* outside the try, so the exception leaves the handler.
StartBatch(r, type, n, quality, oserror) ==
    /\ pc[r] = "idle"
    /\ route' = [route EXCEPT ![r] = "batch"]
    /\ request' = [request EXCEPT ![r] = [type |-> type, quality |-> quality, urls |-> n]]
    /\ url' = [url EXCEPT ![r] = <<"youtube.com", "/watch">>]
    /\ LET id == uuid4 IN
        /\ run_id' = [run_id EXCEPT ![r] = id]
        /\ IF oserror
           THEN /\ exc' = [exc EXCEPT ![r] = OSError("makedirs failed", 173)]
                /\ response' = [response EXCEPT ![r] = ServerErrorResponse]
                /\ pc' = [pc EXCEPT ![r] = "sending"]
                /\ UNCHANGED <<ydl_opts, todo, fsDir>>
           ELSE /\ fsDir' = [fsDir EXCEPT ![id] = IF @ = Absent THEN 0 ELSE @]
                /\ ydl_opts' = [ydl_opts EXCEPT ![r] = batch_opts(id, type, quality)]
                /\ todo' = [todo EXCEPT ![r] = n]
                /\ pc' = [pc EXCEPT ![r] = "thread"]
                /\ UNCHANGED <<exc, response>>
    /\ UNCHANGED <<info, tasks, fsZip, log>>

\* A batch handler that schedules the directory's cleanup and forgets the archive's.
batch_handler_no_zip_cleanup(e, id) ==
    IF e # NoExc
    THEN [tasks |-> <<>>, response |-> ErrorResponse(500, str(e))]
    ELSE [tasks |-> <<DirPath(id)>>,
          response |-> FileResponse(ZipPath(id), "application/zip")]

\* download_batch: the try body after the await and the except clause.
batch_handler(e, id) ==
    IF e # NoExc
    THEN [tasks |-> <<>>, response |-> ErrorResponse(500, str(e))]
    ELSE [tasks |-> <<DirPath(id), ZipPath(id)>>,
          response |-> FileResponse(ZipPath(id), "application/zip")]

ResumeBatch(r) ==
    /\ pc[r] = "resume" /\ route[r] = "batch"
    /\ LET out == batch_handler(exc[r], run_id[r]) IN
        /\ tasks' = [tasks EXCEPT ![r] = out.tasks]
        /\ response' = [response EXCEPT ![r] = out.response]
    /\ pc' = [pc EXCEPT ![r] = "sending"]
    /\ UNCHANGED <<route, request, url, run_id, ydl_opts, todo, exc, info,
                   fsDir, fsZip, log>>

\* --------------------------------------------------------------- /api/info
Max(S) == CHOOSE m \in S : \A x \in S : x <= m

\* The loop of lines 61-66 over info.get('formats', []).
RECURSIVE available_heights(_)
available_heights(formats) ==
    IF formats = <<>> THEN {}
    ELSE LET f == Head(formats)
             rest == available_heights(Tail(formats))
         IN IF f.vcodec # "none" /\ f.height # 0 /\ f.height \in DOMAIN QUALITY_MAP
            THEN rest \cup {f.height}
            ELSE rest

\* sorted(list(available_heights), reverse=True)
RECURSIVE sorted_reverse(_)
sorted_reverse(S) ==
    IF S = {} THEN <<>>
    ELSE <<Max(S)>> \o sorted_reverse(S \ {Max(S)})

\* No cap on the number of options.
top5_uncapped(seq) == seq

\* [:5]
top5(seq) == SubSeq(seq, 1, IF Len(seq) < 5 THEN Len(seq) ELSE 5)

video_options_of(formats) ==
    LET sorted_heights == top5(sorted_reverse(available_heights(formats)))
        options == [i \in 1 .. Len(sorted_heights) |->
                      [value |-> sorted_heights[i],
                       label |-> QUALITY_MAP[sorted_heights[i]]]]
    IN IF options = <<>>
       THEN <<[value |-> 720, label |-> "720p (Default Best)"]>>
       ELSE options

audio_options ==
    << [value |-> 320, label |-> "320 kbps (Studio Quality)"],
       [value |-> 192, label |-> "192 kbps (High Quality)"],
       [value |-> 128, label |-> "128 kbps (Standard Quality)"],
       [value |-> 64, label |-> "64 kbps (Low Quality - Voice only)"] >>

\* An info handler that answers every failure with one generic message.
info_handler_generic(e, inf) ==
    IF e # NoExc
    THEN JsonResponse([NoJson EXCEPT !.status = "error", !.message = "Request failed"])
    ELSE JsonResponse([NoJson EXCEPT !.status = "success",
                                     !.video_options = video_options_of(inf.formats),
                                     !.audio_options = audio_options])

\* get_video_info: the try body after the await and the except clause.
info_handler(e, inf) ==
    IF e # NoExc
    THEN JsonResponse([NoJson EXCEPT !.status = "error", !.message = str(e)])
    ELSE JsonResponse([NoJson EXCEPT !.status = "success",
                                     !.video_options = video_options_of(inf.formats),
                                     !.audio_options = audio_options])

StartInfo(r, u) ==
    /\ pc[r] = "idle"
    /\ route' = [route EXCEPT ![r] = "info"]
    /\ url' = [url EXCEPT ![r] = u]
    /\ ydl_opts' = [ydl_opts EXCEPT ![r] = info_opts(FALSE)]
    /\ pc' = [pc EXCEPT ![r] = "thread"]
    /\ UNCHANGED <<request, run_id, todo, exc, info, response, tasks, fsDir, fsZip, log>>

\* extract_info returned; the handler reshapes its answer.
InfoReturn(r, formats) ==
    /\ pc[r] = "thread" /\ route[r] = "info"
    /\ LET inf == [NoInfo EXCEPT !.formats = formats] IN
        /\ info' = [info EXCEPT ![r] = inf]
        /\ response' = [response EXCEPT ![r] = info_handler(NoExc, inf)]
    /\ pc' = [pc EXCEPT ![r] = "sending"]
    /\ UNCHANGED <<route, request, url, run_id, ydl_opts, todo, exc, tasks,
                   fsDir, fsZip, log>>

\* extract_info raised.
InfoRaise(r, msg) ==
    /\ pc[r] = "thread" /\ route[r] = "info"
    /\ LET e == DownloadError(msg, 55) IN
        /\ exc' = [exc EXCEPT ![r] = e]
        /\ response' = [response EXCEPT ![r] = info_handler(e, NoInfo)]
    /\ pc' = [pc EXCEPT ![r] = "sending"]
    /\ UNCHANGED <<route, request, url, run_id, ydl_opts, todo, info, tasks,
                   fsDir, fsZip, log>>

\* ------------------------------------------------------- /api/channel-info
\* A URL is the sequence of its parts; `x in url` asks for a part.
Has(u, part) == \E i \in 1 .. Len(u) : u[i] = part

\* url.split("?")[0]
RECURSIVE before_query(_)
before_query(u) ==
    IF u = <<>> \/ Head(u) = "?" THEN <<>>
    ELSE <<Head(u)>> \o before_query(Tail(u))

\* Lines 149-151: a channel handle without a tab is sent to its videos tab.
channel_url(u) ==
    IF Has(u, "/@handle") /\ Has(u, "youtube.com")
       /\ ~Has(u, "/videos") /\ ~Has(u, "/shorts") /\ ~Has(u, "/streams")
    THEN Append(before_query(u), "/videos")
    ELSE u

\* Lines 160-164: the entries that have, or can be given, a URL.
RECURSIVE videos_of(_)
videos_of(entries) ==
    IF entries = <<>> THEN <<>>
    ELSE LET e == Head(entries)
             vid_url == IF e.url = "" /\ e.id # ""
                        THEN "https://www.youtube.com/watch?v=" \o e.id
                        ELSE e.url
         IN (IF vid_url # ""
             THEN <<[title |-> IF e.has_title THEN e.title ELSE "Unknown Title",
                     url |-> vid_url]>>
             ELSE <<>>) \o videos_of(Tail(entries))

\* get_channel_info: the try body after the await and the except clause.
channel_handler(e, inf) ==
    IF e # NoExc
    THEN JsonResponse([NoJson EXCEPT !.status = "error", !.message = str(e)])
    ELSE JsonResponse([NoJson EXCEPT
            !.status = "success",
            !.channel_name = IF inf.title = "" THEN "Channel" ELSE inf.title,
            !.videos = videos_of(inf.entries)])

StartChannel(r, u) ==
    /\ pc[r] = "idle"
    /\ route' = [route EXCEPT ![r] = "channel"]
    /\ url' = [url EXCEPT ![r] = channel_url(u)]
    /\ ydl_opts' = [ydl_opts EXCEPT ![r] = info_opts(TRUE)]
    /\ pc' = [pc EXCEPT ![r] = "thread"]
    /\ UNCHANGED <<request, run_id, todo, exc, info, response, tasks, fsDir, fsZip, log>>

ChannelReturn(r, inf) ==
    /\ pc[r] = "thread" /\ route[r] = "channel"
    /\ info' = [info EXCEPT ![r] = inf]
    /\ response' = [response EXCEPT ![r] = channel_handler(NoExc, inf)]
    /\ pc' = [pc EXCEPT ![r] = "sending"]
    /\ UNCHANGED <<route, request, url, run_id, ydl_opts, todo, exc, tasks,
                   fsDir, fsZip, log>>

ChannelRaise(r, msg) ==
    /\ pc[r] = "thread" /\ route[r] = "channel"
    /\ LET e == DownloadError(msg, 156) IN
        /\ exc' = [exc EXCEPT ![r] = e]
        /\ response' = [response EXCEPT ![r] = channel_handler(e, NoInfo)]
    /\ pc' = [pc EXCEPT ![r] = "sending"]
    /\ UNCHANGED <<route, request, url, run_id, ydl_opts, todo, info, tasks,
                   fsDir, fsZip, log>>

\* ------------------------------------------------------------ input sets
DownloadUrl == <<"youtube.com", "/watch">>

ChannelUrls ==
    { <<"youtube.com", "/@handle">>,
      <<"youtube.com", "/@handle", "?", "si=1">>,
      <<"youtube.com", "/@handle", "/shorts">>,
      <<"example.com", "/list">> }

Fmt(v, h) == [vcodec |-> v, height |-> h]

\* Answers of extract_info the service model draws from.
InfoSamples ==
    { <<>>,
      <<Fmt("none", 0), Fmt("avc1", 720), Fmt("avc1", 1080), Fmt("avc1", 720)>>,
      <<Fmt("avc1", 100), Fmt("none", 480)>> }

Entry(u, i, t, ht) == [url |-> u, id |-> i, title |-> t, has_title |-> ht]

ChannelSamples ==
    { [NoInfo EXCEPT !.title = "Chan",
                     !.entries = <<Entry("https://v/1", "a1", "One", TRUE),
                                   Entry("", "b2", "", FALSE),
                                   Entry("", "", "Three", TRUE)>>],
      NoInfo }

\* ------------------------------------------------------------- the service
\* Request 1 is drawn from the full input sets and meets every outcome of
\* the library and of the file system; the requests served concurrently with
\* it are batch downloads that succeed, drawn from narrower input sets.
Full(r) == r = 1
QualitiesOf(r) == IF Full(r) THEN Qualities ELSE {"720"}
SingleRoutes(r) == IF Full(r) THEN {"audio", "video"} ELSE {}
BatchTypesOf(r) == IF Full(r) THEN BatchTypes ELSE {"video"}
UrlCounts(r) == IF Full(r) THEN 1 .. MaxUrls ELSE {1}
Choices(r) == IF Full(r) THEN BOOLEAN ELSE {FALSE}
Leftovers(r) == IF Full(r) THEN 0 .. 1 ELSE {0}

\* One step of request r: a part of its handler, of its worker thread, its
\* transmission, or one of its background tasks.
Step(r) ==
    \/ \E rt \in SingleRoutes(r), q \in QualitiesOf(r) :
          StartSingle(r, rt, DownloadUrl, q)
    \/ \E t \in BatchTypesOf(r), n \in UrlCounts(r), q \in QualitiesOf(r),
          f \in Choices(r) : StartBatch(r, t, n, q, f)
    \/ LibMkdir(r)
    \/ LibWrite(r)
    \/ Full(r) /\ LibSkip(r)
    \/ \E msg \in LibErrors, partial \in BOOLEAN : Full(r) /\ LibRaise(r, msg, partial)
    \/ run_ytdlp(r)
    \/ \E f \in Choices(r), l \in Choices(r) : run_batch(r, f, l)
    \/ ResumeSingle(r)
    \/ ResumeBatch(r)
    \/ Full(r) /\ StartInfo(r, DownloadUrl)
    \/ \E fs \in InfoSamples : InfoReturn(r, fs)
    \/ \E msg \in LibErrors : InfoRaise(r, msg)
    \/ \E u \in ChannelUrls : Full(r) /\ StartChannel(r, u)
    \/ \E inf \in ChannelSamples : ChannelReturn(r, inf)
    \/ \E msg \in LibErrors : ChannelRaise(r, msg)
    \/ Transmit(r)
    \/ \E f \in Choices(r), left \in Leftovers(r) : RunTask(r, f, left)

Next == \E r \in Req : Step(r)

Spec == Init /\ [][Next]_vars

\* ---------------------------------------------- concurrent downloads alone
\* Every request is a single or a batch download whose library call succeeds
\* or raises; all of them run concurrently.
ConcStep(r) ==
    \/ StartSingle(r, "audio", DownloadUrl, "192")
    \/ StartBatch(r, "video", 1, "720", FALSE)
    \/ LibMkdir(r)
    \/ LibWrite(r)
    \/ LibRaise(r, "ERROR: Unsupported URL", FALSE)
    \/ run_ytdlp(r)
    \/ run_batch(r, FALSE, FALSE)
    \/ ResumeSingle(r)
    \/ ResumeBatch(r)
    \/ Transmit(r)
    \/ RunTask(r, FALSE, 0)

NextConc == \E r \in Req : ConcStep(r)

SpecConc == Init /\ [][NextConc]_vars

\* ------------------------------------------- /api/info over many format lists
FormatDomain ==
    {Fmt(v, h) : v \in {"none", "avc1", "absent"}, h \in {0, 100, 144, 720, 1080, 2160}}

RECURSIVE SeqsUpTo(_, _)
SeqsUpTo(S, n) ==
    IF n = 0 THEN {<<>>}
    ELSE LET shorter == SeqsUpTo(S, n - 1)
         IN shorter \cup {Append(q, x) : q \in shorter, x \in S}

\* A long answer of the library: every standard height, a repeated height, an
\* audio-only format, a format without a codec entry, an unmapped height.
Catalogue ==
    << Fmt("avc1", 360), Fmt("none", 0), Fmt("avc1", 2160), Fmt("avc1", 144),
       Fmt("vp9", 1080), Fmt("avc1", 360), Fmt("avc1", 1440), Fmt("avc1", 100),
       Fmt("absent", 720), Fmt("avc1", 240), Fmt("none", 1080), Fmt("avc1", 480) >>

RECURSIVE Pick(_, _, _)
Pick(seq, keep, i) ==
    IF i > Len(seq) THEN <<>>
    ELSE (IF i \in keep THEN <<seq[i]>> ELSE <<>>) \o Pick(seq, keep, i + 1)

FormatLists ==
    SeqsUpTo(FormatDomain, MaxFormats)
        \cup {Pick(Catalogue, keep, 1) : keep \in SUBSET (1 .. Len(Catalogue))}

NextInfo ==
    \/ StartInfo(1, DownloadUrl)
    \/ \E fs \in FormatLists : InfoReturn(1, fs)
    \/ \E msg \in LibErrors : InfoRaise(1, msg)
    \/ Transmit(1)

SpecInfo == Init /\ [][NextInfo]_vars

\* ===================================================================== claims
Responded(r) == pc[r] \in {"sending", "background", "done"}
Failed(r) == exc[r] # NoExc
DirExists(id) == fsDir[id] # Absent
ZipExists(id) == id \in fsZip

\* C1 (as stated): after a successful single download has been transmitted
\* and its cleanup task has run, the run directory no longer exists; while the
\* response is being transmitted the directory and its file are still there.
C1_RunDirGoneAfterSuccess ==
    \A r \in Req :
        IsSingle(r) /\ response[r].status = 200 =>
            /\ pc[r] = "sending" => fsDir[run_id[r]] >= 1
            /\ pc[r] = "done" => ~DirExists(run_id[r])

\* C1 (amended): while a successful single download is being transmitted its
\* run directory holds the file and the cleanup task is still pending; once the
\* task has run, the run directory no longer exists unless its removal raised,
\* in which case the failure has been logged.
C1_RunDirGoneUnlessRemovalFailed ==
    \A r \in Req :
        IsSingle(r) /\ response[r].status = 200 =>
            /\ pc[r] = "sending" =>
                  /\ fsDir[run_id[r]] >= 1
                  /\ tasks[r] = <<DirPath(run_id[r])>>
                  /\ DirPath(run_id[r]) \notin log
            /\ pc[r] = "done" =>
                  ~DirExists(run_id[r]) \/ DirPath(run_id[r]) \in log

C1_Witness ==
    \E r \in Req :
        /\ IsSingle(r) /\ response[r].status = 200 /\ pc[r] = "done"
        /\ ~DirExists(run_id[r])

\* C2: after a failed single download has finished, its run directory is
\* absent from temporary storage.
C2_RunDirGoneAfterFailure ==
    \A r \in Req :
        IsSingle(r) /\ pc[r] = "done" /\ response[r].status # 200 =>
            ~DirExists(run_id[r])

\* C3: a batch in which the library failed on a URL never has an archive, has
\* no cleanup scheduled, and is answered with status 500 and no file.
C3_BatchFailureNoArchive ==
    \A r \in Req :
        route[r] = "batch" /\ exc[r].type = "DownloadError" =>
            /\ ~ZipExists(run_id[r])
            /\ Responded(r) =>
                  /\ response[r].status = 500
                  /\ response[r].path = NoPath
                  /\ response[r].media_type # "application/zip"

C3_Witness ==
    \E r \in Req :
        /\ route[r] = "batch" /\ exc[r].type = "DownloadError" /\ pc[r] = "done"
        /\ request[r].urls = 2 /\ todo[r] = 1 /\ fsDir[run_id[r]] >= 1
        /\ response[r].status = 500

\* C4: every failure of a single download is answered with status 400 whose
\* detail is the message of the error, and no file; a file is answered only
\* when the download raised nothing and left a file in the run directory.
C4_SingleFailureIs400 ==
    \A r \in Req :
        IsSingle(r) /\ Responded(r) =>
            /\ Failed(r) =>
                  /\ response[r].status = 400
                  /\ response[r].detail = str(exc[r])
                  /\ response[r].path = NoPath
            /\ response[r].status = 200 => ~Failed(r)
            /\ response[r].status = 200 /\ pc[r] = "sending" => fsDir[run_id[r]] >= 1
            /\ response[r].status \in {200, 400}

C4_Witness ==
    \E r \in Req :
        /\ IsSingle(r) /\ Responded(r)
        /\ exc[r].type = "HTTPException" /\ exc[r].detail = "Download failed."
        /\ response[r].status = 400

\* C5 (as stated): in every handler a failure is answered with a 4xx or 5xx
\* status carrying the raw message of the error as detail.
C5_FailureIsErrorStatus ==
    \A r \in Req :
        Responded(r) /\ Failed(r) =>
            /\ response[r].status >= 400
            /\ response[r].detail = str(exc[r])

\* C5 (amended): a failure inside a download handler's try block is answered
\* with status 400 (single) or 500 (batch) carrying str(e) as detail; a failure
\* of makedirs, outside the try, leaves the batch handler and is answered by the
\* framework's plain 500; /api/info and /api/channel-info answer a failure with
\* status 200 and a body {"status": "error", "message": str(e)}.  No failed
\* request is answered with a file or a "success" body.
C5_FailureMapping ==
    \A r \in Req :
        Responded(r) /\ Failed(r) =>
            /\ IsSingle(r) =>
                  response[r].status = 400 /\ response[r].detail = str(exc[r])
            /\ route[r] = "batch" /\ exc[r].at # 173 =>
                  response[r].status = 500 /\ response[r].detail = str(exc[r])
            /\ route[r] = "batch" /\ exc[r].at = 173 =>
                  response[r] = ServerErrorResponse
            /\ route[r] \in {"info", "channel"} =>
                  /\ response[r].status = 200
                  /\ response[r].json.status = "error"
                  /\ response[r].json.message = str(exc[r])
            /\ response[r].path = NoPath
            /\ response[r].json.status # "success"

C5_Witness ==
    \E r \in Req :
        /\ route[r] = "info" /\ Responded(r) /\ Failed(r)
        /\ response[r].status = 200 /\ response[r].json.status = "error"

\* The heights the claim's reference result is built from: those of formats
\* whose codec is not 'none' and whose height is a key of the quality map.
ReferenceHeights(formats) ==
    {formats[i].height : i \in {j \in 1 .. Len(formats) :
        formats[j].vcodec # "none" /\ formats[j].height \in StdHeights}}

MinOf(a, b) == IF a < b THEN a ELSE b

\* C6: the video options are the at most five largest reference heights, each
\* once, strictly descending, each with its quality-map label; with no
\* reference height they are the single default option; the audio options are
\* the fixed four.
C6_InfoOptions ==
    \A r \in Req :
        route[r] = "info" /\ Responded(r) /\ ~Failed(r) =>
            LET S == ReferenceHeights(info[r].formats)
                opts == response[r].json.video_options
                vals == {opts[i].value : i \in 1 .. Len(opts)}
            IN /\ response[r].json.status = "success"
               /\ S = {} => opts = <<[value |-> 720, label |-> "720p (Default Best)"]>>
               /\ S # {} =>
                    /\ Len(opts) = MinOf(5, Cardinality(S))
                    /\ vals \subseteq S
                    /\ \A i \in 1 .. Len(opts) : opts[i].label = QUALITY_MAP[opts[i].value]
                    /\ \A i \in 1 .. Len(opts) - 1 : opts[i].value > opts[i + 1].value
                    /\ \A h \in S \ vals : \A v \in vals : h < v
               /\ Len(response[r].json.audio_options) = 4
               /\ [i \in 1 .. 4 |-> response[r].json.audio_options[i].value]
                      = <<320, 192, 128, 64>>

C6_Witness ==
    \E r \in Req :
        /\ route[r] = "info" /\ Responded(r) /\ ~Failed(r)
        /\ Cardinality(ReferenceHeights(info[r].formats)) >= 6
        /\ Len(response[r].json.video_options) = 5
        /\ \E i \in 1 .. Len(info[r].formats) : info[r].formats[i].vcodec = "none"

\* C7: the format expression of a download embeds the request's quality
\* unmodified, for audio (with the same preferred quality) and for video, and
\* a single and a batch download of the same kind and quality get the same
\* expression.
C7_FormatEmbedsQuality ==
    /\ \A r \in Req :
          IsDownload(r) /\ ydl_opts[r] # NoOpts =>
              IF request[r].type = "audio"
              THEN /\ ydl_opts[r].format
                        = "bestaudio[abr<=" \o request[r].quality \o "]/bestaudio/best"
                   /\ ydl_opts[r].preferredquality = request[r].quality
              ELSE ydl_opts[r].format
                        = "bestvideo[height<=" \o request[r].quality \o "]+bestaudio/best"
    /\ \A r1, r2 \in Req :
          /\ IsDownload(r1) /\ IsDownload(r2)
          /\ ydl_opts[r1] # NoOpts /\ ydl_opts[r2] # NoOpts
          /\ request[r1].type = request[r2].type
          /\ request[r1].quality = request[r2].quality
          => ydl_opts[r1].format = ydl_opts[r2].format

C7_Witness ==
    \E r1, r2 \in Req :
        /\ IsSingle(r1) /\ route[r2] = "batch"
        /\ ydl_opts[r1] # NoOpts /\ ydl_opts[r2] # NoOpts
        /\ request[r1].type = "video" /\ request[r2].type = "video"
        /\ request[r1].quality = "720" /\ request[r2].quality = "720"

\* C8: a background task never changes a response or raises a request's
\* error; when the removal fails (the path is still there afterwards) the path
\* is logged, and the tasks after it stay scheduled and run.
C8_CleanupFailureSwallowed ==
    [][\A r \in Req :
          pc[r] = "background" /\ tasks'[r] # tasks[r] =>
              /\ response' = response
              /\ exc' = exc
              /\ tasks'[r] = Tail(tasks[r])
              /\ LET p == Head(tasks[r]) IN
                    \/ p[1] = "dir" /\ fsDir'[p[2]] # Absent
                    \/ p[1] = "zip" /\ p[2] \in fsZip'
                    => p \in log'
              /\ pc'[r] = IF Tail(tasks[r]) = <<>> THEN "done" ELSE "background"]_vars

C8_Witness ==
    \E r \in Req :
        /\ route[r] = "batch" /\ pc[r] = "done" /\ response[r].status = 200
        /\ DirPath(run_id[r]) \in log /\ DirExists(run_id[r])
        /\ ~ZipExists(run_id[r]) /\ ZipPath(run_id[r]) \notin log

\* C9 (as stated): a batch's archive exists only once every URL has been
\* processed; directory and archive exist while the response is transmitted;
\* after the cleanup both are gone.
C9_BatchStorageEmptied ==
    \A r \in Req :
        route[r] = "batch" =>
            /\ ZipExists(run_id[r]) => todo[r] = 0
            /\ response[r].status = 200 /\ pc[r] = "sending" =>
                  DirExists(run_id[r]) /\ ZipExists(run_id[r])
            /\ response[r].status = 200 /\ pc[r] = "done" =>
                  ~DirExists(run_id[r]) /\ ~ZipExists(run_id[r])

\* C9 (amended): as stated, except that after the cleanup the directory and
\* the archive are each gone unless its removal raised, in which case the
\* failure has been logged.
C9_BatchStorageEmptiedUnlessRemovalFailed ==
    \A r \in Req :
        route[r] = "batch" =>
            /\ ZipExists(run_id[r]) => todo[r] = 0
            /\ response[r].status = 200 /\ pc[r] = "sending" =>
                  /\ DirExists(run_id[r]) /\ ZipExists(run_id[r])
                  /\ DirPath(run_id[r]) \notin log /\ ZipPath(run_id[r]) \notin log
            /\ response[r].status = 200 /\ pc[r] = "done" =>
                  /\ ~DirExists(run_id[r]) \/ DirPath(run_id[r]) \in log
                  /\ ~ZipExists(run_id[r]) \/ ZipPath(run_id[r]) \in log

C9_Witness ==
    \E r \in Req :
        /\ route[r] = "batch" /\ response[r].status = 200 /\ pc[r] = "done"
        /\ request[r].urls = 2
        /\ ~DirExists(run_id[r]) /\ ~ZipExists(run_id[r])

\* Everything request r holds outside the shared storage.
Local(r) == <<pc[r], route[r], request[r], url[r], run_id[r], ydl_opts[r], todo[r],
              exc[r], info[r], response[r], tasks[r]>>

\* C10: requests that hold a run id hold different ones, and a step of one
\* request changes neither the run directory, the archive or the logged path
\* of another run id, nor anything another request holds.
C10_Isolation ==
    /\ [](\A r1, r2 \in Req :
            r1 # r2 /\ run_id[r1] # NoRun => run_id[r1] # run_id[r2])
    /\ [][\A r \in Req :
            ConcStep(r) =>
                /\ \A d \in RunIds \ {run_id'[r]} :
                      /\ fsDir'[d] = fsDir[d]
                      /\ ZipExists(d)' = ZipExists(d)
                      /\ (DirPath(d) \in log') = (DirPath(d) \in log)
                      /\ (ZipPath(d) \in log') = (ZipPath(d) \in log)
                /\ \A r2 \in Req \ {r} : Local(r2)' = Local(r2)]_vars

C10_Witness ==
    \E r1, r2 \in Req :
        /\ r1 # r2
        /\ IsSingle(r1) /\ pc[r1] = "sending" /\ response[r1].status = 200
        /\ fsDir[run_id[r1]] >= 1
        /\ route[r2] = "batch" /\ pc[r2] = "done" /\ response[r2].status = 200
        /\ ~DirExists(run_id[r2]) /\ ~ZipExists(run_id[r2])

====
